---- MODULE Spec2Model ----
(***************************************************************************)
(* Model of src/src/utils.py: the helpers extract_city, detect_language    *)
(* and top_ranked_repos.  Each helper is a one-shot, stateless call: a     *)
(* behaviour draws the call's inputs in its initial state and one action   *)
(* runs the whole function body and records its outcome.                   *)
(*                                                                         *)
(* Python text is a sequence of one-character strings.  A Python value is  *)
(* a record [t, v]: t is the type tag ("str", "None", "int", "list", or    *)
(* "missing" for an absent dict key) and v the payload.  A call's outcome  *)
(* is a record [exc, val]: exc = "" for a normal return of val, otherwise  *)
(* the name of the exception that propagates to the caller.                *)
(***************************************************************************)
EXTENDS Integers, Sequences, FiniteSets, TLC

VARIABLES
    pc,          \* "call" before the function body runs, "done" after
    location,    \* extract_city: the argument
    city,        \* extract_city: the outcome
    repo,        \* detect_language: the argument (a dict)
    config,      \* detect_language: ./data/json_files/languages_keywords.json
    opens,       \* detect_language: how many times the file was opened
    text_words,  \* detect_language: the local set text_words
    language,    \* detect_language: the outcome
    df,          \* top_ranked_repos: the table
    n,           \* top_ranked_repos: the argument n
    top_repos    \* top_ranked_repos: the outcome

vars == <<pc, location, city, repo, config, opens, text_words, language,
          df, n, top_repos>>

(***************************************************************************)
(* Bounds of the model.                                                    *)
(***************************************************************************)
MaxPieces == 4      \* a location is a concatenation of at most this many pieces
MaxText   == 3      \* pieces of description plus pieces of topics
MaxRows   == 3      \* rows of a table
MaxVal    == 2      \* a feature value is in 0..MaxVal
MaxN      == 4      \* the argument n is in 0..MaxN

(***************************************************************************)
(* Python values and outcomes.                                             *)
(***************************************************************************)
None      == [t |-> "None", v |-> <<>>]
Missing   == [t |-> "missing", v |-> <<>>]
PyStr(s)    == [t |-> "str", v |-> s]
PyInt(s)    == [t |-> "int", v |-> s]
PyList(s)   == [t |-> "list", v |-> s]

Ret(x)    == [exc |-> "", val |-> x]
Raise(e)  == [exc |-> e, val |-> None]

(***************************************************************************)
(* Characters.  Lower and upper case letters are kept in parallel          *)
(* sequences so that str.lower and str.title can map between them.  The    *)
(* letters outside ASCII stand for every cased letter that the regex \w    *)
(* matches and [a-zA-Z] does not.                                          *)
(***************************************************************************)
AsciiLower == <<"a","b","c","d","e","f","g","h","i","j","k","l","m",
                "n","o","p","q","r","s","t","u","v","w","x","y","z">>
AsciiUpper == <<"A","B","C","D","E","F","G","H","I","J","K","L","M",
                "N","O","P","Q","R","S","T","U","V","W","X","Y","Z">>
OtherLower == <<"é">>
OtherUpper == <<"É">>
Digits     == {"0","1","2","3","4","5","6","7","8","9"}
Whitespace == {" ", "\t", "\n", "\r"}
Punct      == {",", "!", ".", "-", "_"}

Range(s)   == {s[i] : i \in 1..Len(s)}
LowerSet   == Range(AsciiLower)
UpperSet   == Range(AsciiUpper)
AllLower   == AsciiLower \o OtherLower
AllUpper   == AsciiUpper \o OtherUpper
Chars      == Range(AllLower) \cup Range(AllUpper) \cup Digits
                \cup Whitespace \cup Punct

\* str.lower / str.upper on one character
LowerMap == [c \in Chars |->
               IF c \in Range(AllUpper)
               THEN AllLower[CHOOSE i \in 1..Len(AllUpper) : AllUpper[i] = c]
               ELSE c]
UpperMap == [c \in Chars |->
               IF c \in Range(AllLower)
               THEN AllUpper[CHOOSE i \in 1..Len(AllLower) : AllLower[i] = c]
               ELSE c]

IsSpace(c)  == c \in Whitespace                       \* str.isspace, regex \s
IsLetter(c) == c \in LowerSet \cup UpperSet            \* regex [a-zA-Z]
IsCased(c)  == c \in Range(AllLower) \cup Range(AllUpper)  \* has a case
IsWordCh(c) == IsCased(c) \/ c \in Digits \/ c = "_"  \* regex \w

(***************************************************************************)
(* The string methods the code calls.                                      *)
(***************************************************************************)
\* s.lower()
lower(s) == [i \in 1..Len(s) |-> LowerMap[s[i]]]

\* s.strip(): drop leading and trailing whitespace
RECURSIVE lstrip(_)
lstrip(s) == IF s # <<>> /\ IsSpace(Head(s)) THEN lstrip(Tail(s)) ELSE s
RECURSIVE rstrip(_)
rstrip(s) == IF s # <<>> /\ IsSpace(s[Len(s)])
             THEN rstrip(SubSeq(s, 1, Len(s) - 1)) ELSE s
\* a variant that forgets to trim
strip_nothing(s) == s

strip(s) == rstrip(lstrip(s))

\* s.split(): the maximal runs of non-whitespace, in order.  cur is the
\* word being read.
RECURSIVE split_ws(_, _)
split_ws(s, cur) ==
    IF s = <<>> THEN (IF cur = <<>> THEN <<>> ELSE <<cur>>)
    ELSE IF IsSpace(Head(s))
         THEN (IF cur = <<>> THEN <<>> ELSE <<cur>>) \o split_ws(Tail(s), <<>>)
         ELSE split_ws(Tail(s), Append(cur, Head(s)))
split(s) == split_ws(s, <<>>)

\* s.split(sep) for a one-character sep: the segments between separators,
\* empty ones included; never an empty list.
RECURSIVE split_on(_, _, _)
split_on(s, sep, cur) ==
    IF s = <<>> THEN <<cur>>
    ELSE IF Head(s) = sep
         THEN <<cur>> \o split_on(Tail(s), sep, <<>>)
         ELSE split_on(Tail(s), sep, Append(cur, Head(s)))

\* a variant of s.split(",") that trims every segment
split_comma_trimmed(s) ==
    LET segs == split_on(s, ",", <<>>)
    IN  [i \in 1..Len(segs) |-> strip(segs[i])]

split_comma(s) == split_on(s, ",", <<>>)

\* ' '.join(parts)
RECURSIVE join_space(_)
join_space(parts) ==
    IF parts = <<>> THEN <<>>
    ELSE IF Len(parts) = 1 THEN parts[1]
    ELSE parts[1] \o <<" ">> \o join_space(Tail(parts))

\* a variant that behaves like s.capitalize(): only the first character of
\* the whole string is upper-cased
title_first_only(s) == [i \in 1..Len(s) |->
                          IF i = 1 THEN UpperMap[s[i]] ELSE LowerMap[s[i]]]

\* s.title(): a cased character is upper-cased when the character before it
\* is not cased, lower-cased otherwise; other characters are unchanged.
title(s) == [i \in 1..Len(s) |->
               IF ~IsCased(s[i]) THEN s[i]
               ELSE IF i > 1 /\ IsCased(s[i-1]) THEN LowerMap[s[i]]
               ELSE UpperMap[s[i]]]

\* s.endswith(suffix)
endswith(s, suffix) ==
    /\ Len(suffix) <= Len(s)
    /\ SubSeq(s, Len(s) - Len(suffix) + 1, Len(s)) = suffix

(***************************************************************************)
(* extract_city                                                            *)
(***************************************************************************)
Egypt_lc == <<"e","g","y","p","t">>
Egypt_tc == <<"E","g","y","p","t">>

\* the regex r'\b(egypt)\b' matches s at position i
match_egypt(s, i) ==
    /\ i + 4 <= Len(s)
    /\ SubSeq(s, i, i + 4) = Egypt_lc
    /\ (i = 1 \/ ~IsWordCh(s[i-1]))
    /\ (i + 5 > Len(s) \/ ~IsWordCh(s[i+5]))

\* re.sub(r'\b(egypt)\b', '', s): a left-to-right scan from position i that
\* drops every match and copies every other character.
RECURSIVE sub_egypt(_, _)
sub_egypt(s, i) ==
    IF i > Len(s) THEN <<>>
    ELSE IF match_egypt(s, i) THEN sub_egypt(s, i + 5)
    ELSE <<s[i]>> \o sub_egypt(s, i + 1)
exclude_egypt(s) == sub_egypt(s, 1)

\* re.sub(r'[^a-zA-Z\s]', '', s)
only_chars(s) == SelectSeq(s, LAMBDA c : IsLetter(c) \/ IsSpace(c))

\* a variant that returns the sentinel for both empty outcomes
extract_city_text_unified(loc) ==
    IF loc.t # "str" THEN Raise("AttributeError")
    ELSE LET stripped == exclude_egypt(lower(strip(loc.v)))
         IN  IF stripped = <<>> THEN Ret(PyStr(Egypt_tc))
             ELSE LET parts == split(only_chars(stripped))
                  IN  IF Len(parts) > 0
                      THEN Ret(PyStr(title(join_space(parts))))
                      ELSE Ret(PyStr(Egypt_tc))

\* a variant that title-cases the stripped text without splitting and
\* joining it
extract_city_text_unjoined(loc) ==
    IF loc.t # "str" THEN Raise("AttributeError")
    ELSE LET stripped == exclude_egypt(lower(strip(loc.v)))
         IN  IF stripped = <<>> THEN Ret(PyStr(Egypt_tc))
             ELSE LET chars == only_chars(stripped)
                  IN  IF Len(split(chars)) > 0
                      THEN Ret(PyStr(title(chars)))
                      ELSE Ret(None)

\* lines 138-155: the body after the isinstance test.  A method call on a
\* value that is not a str raises AttributeError.
extract_city_text(loc) ==
    IF loc.t # "str" THEN Raise("AttributeError")
    ELSE LET stripped == exclude_egypt(lower(strip(loc.v)))
         IN  IF stripped = <<>> THEN Ret(PyStr(Egypt_tc))
             ELSE LET parts == split(only_chars(stripped))
                  IN  IF Len(parts) > 0
                      THEN Ret(PyStr(title(join_space(parts))))
                      ELSE Ret(None)

\* a variant that only guards against None
extract_city_none_guard(loc) ==
    IF loc.t = "None" THEN Ret(None) ELSE extract_city_text(loc)

extract_city(loc) ==
    IF loc.t # "str" THEN Ret(None) ELSE extract_city_text(loc)

(***************************************************************************)
(* Inputs of extract_city: every concatenation of at most MaxPieces        *)
(* pieces, the examples of the documentation, and values that are not text.*)
(***************************************************************************)
CityPieces == { Egypt_tc, <<"c">>, <<"A">>, <<" ">>, <<",">>, <<"1">>, <<"é">> }

RECURSIVE Concats(_, _)
Concats(pieces, k) ==
    IF k = 0 THEN {<<>>}
    ELSE LET shorter == Concats(pieces, k - 1)
         IN  shorter \cup {s \o p : s \in shorter, p \in pieces}

CityExamples ==
    { <<"E","g","y","p","t">>,
      <<" "," ","E","G","Y","P","T"," "," ">>,
      <<"C","a","i","r","o",","," ","E","g","y","p","t">>,
      <<"!","!","!">>,
      <<"N","e","w","\t","c","a","i","r","o","\n">>,
      <<"e","g","y","p","t","_"," ","e","g","y","p","t">>,
      <<"É","g","y","p","t","e"," ","-","\r","E","G","Y","P","T","."," ","é">> }

NonText == { None, PyInt(<<"7">>), PyList(<<>>), PyList(<<Egypt_tc>>) }

Locations ==
    {PyStr(s) : s \in Concats(CityPieces, MaxPieces) \cup CityExamples} \cup NonText

\* the values of the variables a behaviour does not use
Idle     == Ret(None)
NoRepo   == [repo_description |-> Missing, topics |-> Missing, filenames |-> Missing]
NoConfig == [state |-> "missing", table |-> <<>>]
NoTable  == [repo_name |-> FALSE, feature |-> <<>>]
NoRows   == [exc |-> "", rows |-> <<>>]

InitCity ==
    /\ pc = "call"
    /\ location \in Locations
    /\ city = Idle
    /\ repo = NoRepo /\ config = NoConfig /\ opens = 0 /\ text_words = {}
    /\ language = Idle
    /\ df = NoTable /\ n = 0 /\ top_repos = NoRows

ExtractCity ==
    /\ pc = "call"
    /\ city' = extract_city(location)
    /\ pc' = "done"
    /\ UNCHANGED <<location, repo, config, opens, text_words, language,
                   df, n, top_repos>>

NextCity == ExtractCity
SpecCity == InitCity /\ [][NextCity]_vars

(***************************************************************************)
(* detect_language                                                         *)
(*                                                                         *)
(* repo is a dict with the keys repo_description, topics and filenames; a  *)
(* key that is absent holds Missing, for which dict.get gives None.  The   *)
(* configuration file is [state, table]: state is "ok", "missing" (open    *)
(* raises FileNotFoundError) or "malformed" (json.load raises              *)
(* JSONDecodeError); table is the parsed dict as the sequence of its       *)
(* items, in insertion order, each [lang, identifiers].                    *)
(***************************************************************************)
\* dict.get(key): None for an absent key
get(x) == IF x.t = "missing" THEN None ELSE x

\* lines 166-168: the three isinstance tests
fields_ok(r) ==
    /\ get(r.repo_description).t = "str"
    /\ get(r.topics).t = "str"
    /\ get(r.filenames).t = "list"

\* a variant that answers an unreadable file with an empty table
load_keywords_fallback(cfg) ==
    IF cfg.state = "ok" THEN [exc |-> "", table |-> cfg.table]
    ELSE [exc |-> "", table |-> <<>>]

\* lines 172-174: open the file and json.load it
load_keywords(cfg) ==
    IF cfg.state = "missing" THEN [exc |-> "FileNotFoundError", table |-> <<>>]
    ELSE IF cfg.state = "malformed" THEN [exc |-> "JSONDecodeError", table |-> <<>>]
    ELSE [exc |-> "", table |-> cfg.table]

\* lines 178-181: the set of lower-cased description words and topics
build_text_words(r) ==
    Range(split(lower(r.repo_description.v)))
        \cup Range(split_comma(lower(r.topics.v)))

\* lines 186-189: some identifier is in text_words
keyword_hit(identifiers, words) ==
    \E k \in 1..Len(identifiers) : identifiers[k] \in words

\* lines 191-194: some filename ends with some identifier
filename_hit(identifiers, files) ==
    \E f \in 1..Len(files) :
        \E k \in 1..Len(identifiers) : endswith(files[f], identifiers[k])

\* a variant that looks for a keyword in every language before it looks at
\* any filename
RECURSIVE first_keyword(_, _, _)
first_keyword(table, words, i) ==
    IF i > Len(table) THEN 0
    ELSE IF keyword_hit(table[i].identifiers, words) THEN i
    ELSE first_keyword(table, words, i + 1)
RECURSIVE first_filename(_, _, _)
first_filename(table, files, i) ==
    IF i > Len(table) THEN 0
    ELSE IF filename_hit(table[i].identifiers, files) THEN i
    ELSE first_filename(table, files, i + 1)
match_language_keywords_first(table, words, files, i) ==
    LET k == first_keyword(table, words, i)
        f == first_filename(table, files, i)
    IN  IF k > 0 THEN PyStr(table[k].lang)
        ELSE IF f > 0 THEN PyStr(table[f].lang)
        ELSE None

\* lines 184-197: the loop over the table from its i-th item on
RECURSIVE match_language(_, _, _, _)
match_language(table, words, files, i) ==
    IF i > Len(table) THEN None
    ELSE IF keyword_hit(table[i].identifiers, words) THEN PyStr(table[i].lang)
    ELSE IF filename_hit(table[i].identifiers, files) THEN PyStr(table[i].lang)
    ELSE match_language(table, words, files, i + 1)

\* a variant that reads the file before it tests the fields
detect_language_load_first(r, cfg) ==
    LET loaded == load_keywords(cfg)
    IN  IF loaded.exc # ""
        THEN [out |-> Raise(loaded.exc), opened |-> 1, words |-> {}]
        ELSE IF ~fields_ok(r)
        THEN [out |-> Ret(None), opened |-> 1, words |-> {}]
        ELSE LET words == build_text_words(r)
             IN  [out |-> Ret(match_language(loaded.table, words, r.filenames.v, 1)),
                  opened |-> 1, words |-> words]

\* lines 158-197: the outcome, the number of open() calls and the set
\* text_words (empty when the body does not reach line 178)
detect_language(r, cfg) ==
    IF ~fields_ok(r)
    THEN [out |-> Ret(None), opened |-> 0, words |-> {}]
    ELSE LET loaded == load_keywords(cfg)
         IN  IF loaded.exc # ""
             THEN [out |-> Raise(loaded.exc), opened |-> 1, words |-> {}]
             ELSE LET words == build_text_words(r)
                  IN  [out |-> Ret(match_language(loaded.table, words,
                                                  r.filenames.v, 1)),
                       opened |-> 1, words |-> words]

(***************************************************************************)
(* Inputs of detect_language.                                              *)
(***************************************************************************)
Python_n == <<"P","y","t","h","o","n">>
Go_n     == <<"G","o">>
Text_n   == <<"T","e","x","t">>

kw_py     == <<"p","y">>
ext_py    == <<".","p","y">>
kw_go     == <<"g","o">>
ext_go    == <<".","g","o">>
kw_python == <<"p","y","t","h","o","n">>
kw_golang == <<"g","o","l","a","n","g">>

Item(l, ids) == [lang |-> l, identifiers |-> ids]
PyItem   == Item(Python_n, <<kw_py, ext_py>>)
GoItem   == Item(Go_n, <<kw_go, ext_go>>)

Tables ==
    { <<>>,
      <<PyItem>>,
      <<PyItem, GoItem>>,
      <<GoItem, PyItem>>,
      <<Item(Python_n, <<kw_python, ext_py>>), Item(Go_n, <<kw_golang, ext_go>>)>>,
      <<Item(Go_n, <<ext_go>>), PyItem>>,
      <<Item(Python_n, <<>>), GoItem>>,
      <<Item(Text_n, <<<<>>>>), PyItem>>,
      <<Item(Go_n, <<Go_n>>), PyItem>> }

Configs ==
    {[state |-> "ok", table |-> t] : t \in Tables}
        \cup {[state |-> "missing", table |-> <<>>],
              [state |-> "malformed", table |-> <<>>]}

main_go == <<"m","a","i","n",".","g","o">>
a_py    == <<"a",".","p","y">>
readme  == <<"R","E","A","D","M","E">>
A_PY    == <<"A",".","P","Y">>
FileLists ==
    { <<>>, <<main_go>>, <<a_py>>, <<readme, a_py, main_go>>, <<readme>>, <<A_PY>> }

DescPieces  == { <<"P","y">>, kw_go, <<" ">> }
TopicPieces == { <<"G","o">>, <<",">>, <<" ">> }

Texts ==
    UNION { {[d |-> d, t |-> t] : d \in Concats(DescPieces, i),
                                t \in Concats(TopicPieces, MaxText - i)}
            : i \in 0..MaxText }
        \cup { [d |-> <<"a"," ","p","y","t","h","o","n"," ","t","o","o","l">>,
                t |-> <<>>],
               [d |-> <<"G","o","\t","a","n","d","\n","p","y">>,
                t |-> <<"m","l",","," ","p","y"," ","g","o",",">>] }

GoodRepos ==
    {[repo_description |-> PyStr(x.d), topics |-> PyStr(x.t), filenames |-> PyList(f)]
        : x \in Texts, f \in FileLists}

FieldValues ==
    { Missing, None, PyInt(<<"7">>), PyStr(<<"p","y">>), PyList(<<a_py>>) }

AnyRepos ==
    [repo_description : FieldValues, topics : FieldValues, filenames : FieldValues]

InitLang ==
    /\ pc = "call"
    /\ repo \in GoodRepos \cup AnyRepos
    /\ config \in Configs
    /\ opens = 0 /\ text_words = {} /\ language = Idle
    /\ location = None /\ city = Idle
    /\ df = NoTable /\ n = 0 /\ top_repos = NoRows

DetectLanguage ==
    /\ pc = "call"
    /\ LET r == detect_language(repo, config)
       IN  /\ language' = r.out
           /\ opens' = opens + r.opened
           /\ text_words' = r.words
    /\ pc' = "done"
    /\ UNCHANGED <<location, city, repo, config, df, n, top_repos>>

NextLang == DetectLanguage
SpecLang == InitLang /\ [][NextLang]_vars

(***************************************************************************)
(* top_ranked_repos                                                        *)
(*                                                                         *)
(* df is [repo_name, feature]: repo_name says whether df has the column    *)
(* 'repo_name', feature is the column df[feature] as the sequence of its   *)
(* values.  A value is [nan, x]: the number x, or NaN when nan holds.  A   *)
(* row is named by its position in df (its index label), and a table       *)
(* derived from df is a sequence of row positions.  The outcome is         *)
(* [exc, rows]: the returned table, or the exception that propagates.      *)
(***************************************************************************)
Num(x) == [nan |-> FALSE, x |-> x]
NaN    == [nan |-> TRUE, x |-> 0]

\* a >= b on floats: false when either is NaN
geq(a, b) == ~a.nan /\ ~b.nan /\ a.x >= b.x

\* the orderings of the rows of d, as sequences of row positions
Orderings(d) ==
    {o \in [1..Len(d) -> 1..Len(d)] : \A i, j \in 1..Len(d) : i # j => o[i] # o[j]}

\* a variant that sorts in ascending order
sort_values_ascending(d) ==
    {o \in Orderings(d) :
        \A i \in 1..(Len(d) - 1) :
            \/ d[o[i+1]].nan
            \/ ~d[o[i]].nan /\ d[o[i]].x <= d[o[i+1]].x}

\* line 111, df.sort_values(by=feature, ascending=False): the rows by
\* descending feature value, the NaN rows last (na_position='last').  The
\* default sort is not stable, so rows of equal value may come in any
\* order: the set of the possible results.
sort_values_descending(d) ==
    {o \in Orderings(d) :
        \A i \in 1..(Len(d) - 1) :
            \/ d[o[i+1]].nan
            \/ ~d[o[i]].nan /\ d[o[i]].x >= d[o[i+1]].x}

\* line 111, .head(k): the first k rows, or all but the last -k rows when k
\* is negative
head(rows, k) ==
    IF k >= 0
    THEN SubSeq(rows, 1, IF k < Len(rows) THEN k ELSE Len(rows))
    ELSE SubSeq(rows, 1, IF Len(rows) + k > 0 THEN Len(rows) + k ELSE 0)

\* lines 113-114, sns.barplot(x=top_repos['repo_name'], y=top_repos[feature],
\* palette=...): the exceptions the call can end in, "" for none.  Indexing
\* a table without the column raises KeyError.  On an empty selection the
\* outcome depends on the seaborn release: older ones take the min() of an
\* empty list of colours and raise ValueError, newer ones draw nothing.
barplot(d, rows) ==
    IF ~d.repo_name THEN {"KeyError"}
    ELSE IF rows = <<>> THEN {"", "ValueError"}
    ELSE {""}

\* lines 107-126: the possible outcomes of the call
top_ranked_repos(d, k) ==
    UNION { { IF e = "" THEN [exc |-> "", rows |-> head(sorted, k)]
              ELSE [exc |-> e, rows |-> <<>>]
              : e \in barplot(d, head(sorted, k)) }
            : sorted \in sort_values_descending(d.feature) }

Values    == {Num(x) : x \in 0..MaxVal} \cup {NaN}
Tables_df ==
    [repo_name : BOOLEAN, feature : UNION {[1..k -> Values] : k \in 0..MaxRows}]

InitTop ==
    /\ pc = "call"
    /\ df \in Tables_df
    /\ n \in (-1)..MaxN
    /\ top_repos = NoRows
    /\ location = None /\ city = Idle
    /\ repo = NoRepo /\ config = NoConfig /\ opens = 0 /\ text_words = {}
    /\ language = Idle

TopRankedRepos ==
    /\ pc = "call"
    /\ top_repos' \in top_ranked_repos(df, n)
    /\ pc' = "done"
    /\ UNCHANGED <<location, city, repo, config, opens, text_words, language,
                   df, n>>

NextTop == TopRankedRepos
SpecTop == InitTop /\ [][NextTop]_vars

(***************************************************************************)
(* What the claims about extract_city say, stated without the code's       *)
(* operators: by positions of the input rather than by scanning it.        *)
(***************************************************************************)
\* the trimmed, lower-cased form of x
TrimLower(x) ==
    LET solid == {k \in 1..Len(x) : ~IsSpace(x[k])}
    IN  IF solid = {} THEN <<>>
        ELSE LET a == CHOOSE k \in solid : \A j \in solid : k <= j
                 b == CHOOSE k \in solid : \A j \in solid : k >= j
             IN  [k \in 1..(b - a + 1) |-> LowerMap[x[a + k - 1]]]

\* a standalone occurrence of the word "egypt" starts at position i of s
StandaloneAt(s, i) ==
    /\ i >= 1 /\ i + 4 <= Len(s)
    /\ s[i] = "e" /\ s[i+1] = "g" /\ s[i+2] = "y" /\ s[i+3] = "p" /\ s[i+4] = "t"
    /\ (i > 1 => ~IsWordCh(s[i-1]))
    /\ (i + 5 <= Len(s) => ~IsWordCh(s[i+5]))

\* position k of s lies inside a standalone occurrence
InCountry(s, k) == \E i \in (k - 4)..k : StandaloneAt(s, i)

\* a set of positions as the increasing sequence of its elements
RECURSIVE Ascending(_)
Ascending(S) ==
    IF S = {} THEN <<>>
    ELSE LET m == CHOOSE k \in S : \A j \in S : k <= j
         IN  <<m>> \o Ascending(S \ {m})

\* s with every standalone occurrence of "egypt" removed
Remaining(s) ==
    LET keep == Ascending({k \in 1..Len(s) : ~InCountry(s, k)})
    IN  [j \in 1..Len(keep) |-> s[keep[j]]]

\* what is left of a text location once trimmed, lower-cased and freed of
\* the country name
Rest == IF location.t = "str" THEN Remaining(TrimLower(location.v)) ELSE <<>>

HasLetter(s) == \E k \in 1..Len(s) : IsLetter(s[k])

\* the letters of r, in order, each upper-cased when it starts a word and
\* preceded by one space when whitespace separates it from the letter
\* before it
RECURSIVE WordsOf(_, _, _)
WordsOf(r, at, j) ==
    IF j > Len(at) THEN <<>>
    ELSE LET gap == j > 1 /\ \E k \in (at[j-1] + 1)..(at[j] - 1) : IsSpace(r[k])
             ch  == IF j = 1 \/ gap THEN UpperMap[r[at[j]]] ELSE LowerMap[r[at[j]]]
         IN  (IF gap THEN <<" ", ch>> ELSE <<ch>>) \o WordsOf(r, at, j + 1)
CityOf(r) == WordsOf(r, Ascending({k \in 1..Len(r) : IsLetter(r[k])}), 1)

\* the words of a result string: s is cut at its single spaces
HasWord(s, w) ==
    \E i \in 1..Len(s) :
        /\ i + Len(w) - 1 <= Len(s)
        /\ SubSeq(s, i, i + Len(w) - 1) = w
        /\ (i = 1 \/ s[i-1] = " ")
        /\ (i + Len(w) > Len(s) \/ s[i + Len(w)] = " ")

CityDone == pc = "done" /\ location.t = "str"

\* C3: a text location that is empty once trimmed, lower-cased and freed of
\* every standalone "egypt" makes extract_city return the literal "Egypt".
C3_CountryOnly ==
    (CityDone /\ Rest = <<>>) => city = Ret(PyStr(Egypt_tc))

C3_Witness ==
    /\ pc = "done"
    /\ location = PyStr(<<" "," ","E","G","Y","P","T"," "," ">>)
    /\ city = Ret(PyStr(Egypt_tc))

\* C4: a text location that is not empty after the country removal but has
\* no letter left makes extract_city return None, never "Egypt".
C4_GarbageIsNone ==
    (CityDone /\ Rest # <<>> /\ ~HasLetter(Rest)) =>
        (city = Ret(None) /\ city # Ret(PyStr(Egypt_tc)))

C4_Witness ==
    /\ pc = "done"
    /\ location = PyStr(<<"!","!","!">>)
    /\ city = Ret(None)

\* a letter of any alphabet
IsAnyLetter(c) == c \in Range(AllLower) \cup Range(AllUpper)
HasAnyLetter(s) == \E k \in 1..Len(s) : IsAnyLetter(s[k])
AnyCityOf(r) == WordsOf(r, Ascending({k \in 1..Len(r) : IsAnyLetter(r[k])}), 1)

\* C5: a text location that keeps a letter after the country removal makes
\* extract_city return its letters-only words in order, joined by single
\* spaces, each title-cased, with no space at either end.
C5_LetterWords ==
    (CityDone /\ HasAnyLetter(Rest)) =>
        /\ city = Ret(PyStr(AnyCityOf(Rest)))
        /\ LET r == city.val.v
           IN  /\ r[1] # " " /\ r[Len(r)] # " "
               /\ \A k \in 1..(Len(r) - 1) : ~(r[k] = " " /\ r[k+1] = " ")
               /\ \A k \in 1..Len(r) : r[k] = " " \/ IsAnyLetter(r[k])

\* what the code does instead: the same with the letters a-z and A-Z alone,
\* every other letter being dropped like punctuation
C5_TitleCasedWords ==
    (CityDone /\ HasLetter(Rest)) =>
        /\ city = Ret(PyStr(CityOf(Rest)))
        /\ LET r == city.val.v
           IN  /\ r[1] # " " /\ r[Len(r)] # " "
               /\ \A k \in 1..(Len(r) - 1) : ~(r[k] = " " /\ r[k+1] = " ")
               /\ \A k \in 1..Len(r) : r[k] = " " \/ IsLetter(r[k])

C5_Witness ==
    /\ pc = "done"
    /\ location = PyStr(<<"C","a","i","r","o",","," ","E","g","y","p","t">>)
    /\ city = Ret(PyStr(<<"C","a","i","r","o">>))

\* C6: extract_city never raises, and returns None for every input that is
\* not text.
C6_NeverRaises ==
    pc = "done" =>
        /\ city.exc = ""
        /\ (location.t # "str" => city = Ret(None))

C6_Witness ==
    /\ pc = "done"
    /\ location = PyInt(<<"7">>)
    /\ city = Ret(None)

\* C10 as stated: extract_city applied to any string it returned gives that
\* string again.
C10_Idempotent ==
    (CityDone /\ city.val.t = "str") => extract_city(city.val) = city

\* C10 amended: extract_city applied to a string it returned gives that
\* string again when the string is the sentinel "Egypt" or has no word
\* "Egypt".
C10_IdempotentWithoutCountryWord ==
    (CityDone /\ city.val.t = "str"
        /\ (city.val.v = Egypt_tc \/ ~HasWord(city.val.v, Egypt_tc))) =>
        extract_city(city.val) = city

C10_Witness ==
    /\ pc = "done"
    /\ location = PyStr(<<"c", " ", " ", "A">>)
    /\ city = Ret(PyStr(<<"C", " ", "A">>))
    /\ extract_city(city.val) = city

(***************************************************************************)
(* What the claims about detect_language say.                              *)
(***************************************************************************)
\* the record passes the precondition check: no field is missing or of the
\* wrong type
Passes(r) ==
    ~ \/ r.repo_description.t \in {"missing", "None", "int", "list"}
      \/ r.topics.t \in {"missing", "None", "int", "list"}
      \/ r.filenames.t \in {"missing", "None", "int", "str"}

LangDone == pc = "done" /\ Passes(repo) /\ config.state = "ok"

\* the i-th language of the table has a match: an identifier that is a
\* candidate word, or an identifier that ends a filename
LangMatches(i) ==
    \E id \in Range(config.table[i].identifiers) :
        \/ id \in text_words
        \/ \E f \in Range(repo.filenames.v) :
              /\ Len(f) >= Len(id)
              /\ \A k \in 1..Len(id) : f[Len(f) - Len(id) + k] = id[k]

\* C1: detect_language returns the first language of the table that has a
\* match of either kind, and None exactly when no language has one.
C1_FirstMatchWins ==
    LangDone =>
        LET hits == {i \in 1..Len(config.table) : LangMatches(i)}
        IN  /\ hits = {} => language = Ret(None)
            /\ hits # {} =>
                  language = Ret(PyStr(config.table[
                                 CHOOSE i \in hits : \A j \in hits : i <= j].lang))
            /\ (language = Ret(None)) <=> (hits = {})

\* the later language matches by keyword, the earlier one by filename only
C1_Witness ==
    /\ LangDone
    /\ config.table = <<PyItem, GoItem>>
    /\ kw_go \in text_words /\ kw_py \notin text_words
    /\ repo.filenames.v = <<a_py>>
    /\ language = Ret(PyStr(Python_n))

\* C2: a record that fails the precondition check makes detect_language
\* return None without opening the configuration file, whatever the file's
\* state.
C2_BadRecordIsNone ==
    (pc = "done" /\ ~Passes(repo)) => (language = Ret(None) /\ opens = 0)

C2_Witness ==
    /\ pc = "done"
    /\ repo.filenames.t = "missing"
    /\ repo.repo_description.t = "str" /\ repo.topics.t = "str"
    /\ config.state = "missing"
    /\ language = Ret(None)

\* C7: for a record that passes the precondition check, a missing or
\* malformed configuration file ends the call in the propagated error,
\* after one attempt to open the file.
C7_ConfigErrorPropagates ==
    (pc = "done" /\ Passes(repo) /\ config.state # "ok") =>
        /\ config.state = "missing" => language.exc = "FileNotFoundError"
        /\ config.state = "malformed" => language.exc = "JSONDecodeError"
        /\ language.exc # ""
        /\ opens = 1

C7_Witness ==
    /\ pc = "done" /\ Passes(repo)
    /\ repo.filenames.v = <<main_go>>
    /\ config.state = "malformed"
    /\ language.exc = "JSONDecodeError"

\* the maximal runs of s without whitespace, empty runs left out
DescTokens(s) ==
    {SubSeq(s, x[1], x[2]) :
        x \in {y \in (1..Len(s)) \X (1..Len(s)) :
                 /\ y[1] <= y[2]
                 /\ \A k \in y[1]..y[2] : ~IsSpace(s[k])
                 /\ (y[1] = 1 \/ IsSpace(s[y[1] - 1]))
                 /\ (y[2] = Len(s) \/ IsSpace(s[y[2] + 1]))}}
\* the maximal runs of s without a comma, empty runs included: a run from
\* a to b is empty when b = a - 1
TopicTokens(s) ==
    {SubSeq(s, x[1], x[2]) :
        x \in {y \in (1..(Len(s) + 1)) \X (0..Len(s)) :
                 /\ y[1] <= y[2] + 1
                 /\ \A k \in y[1]..y[2] : s[k] # ","
                 /\ (y[1] = 1 \/ s[y[1] - 1] = ",")
                 /\ (y[2] = Len(s) \/ s[y[2] + 1] = ",")}}
LowerCased(s) == [k \in 1..Len(s) |-> LowerMap[s[k]]]

\* C9: the candidate word set is the lower-cased description cut at
\* whitespace together with the lower-cased topics cut at commas only, the
\* segments untrimmed; an empty topics string gives the empty token.
C9_CandidateWords ==
    LangDone =>
        /\ text_words = DescTokens(LowerCased(repo.repo_description.v))
                          \cup TopicTokens(LowerCased(repo.topics.v))
        /\ repo.topics.v = <<>> => <<>> \in text_words

\* a topic with a leading space is a token of its own and matches no
\* identifier
C9_Witness ==
    /\ LangDone
    /\ repo.repo_description.v = <<>>
    /\ repo.topics.v = <<" ","G","o">>
    /\ text_words = {<<" ","g","o">>}
    /\ repo.filenames.v = <<>>
    /\ config.table = <<GoItem, PyItem>>
    /\ language = Ret(None)

(***************************************************************************)
(* What the claim about top_ranked_repos says.                             *)
(***************************************************************************)
\* the returned rows are the top ones: min(n, rows of df) distinct rows of
\* df, in descending order of the feature, each at least as large as every
\* row that is not returned
TopRows ==
    LET col == df.feature
        got == Range(top_repos.rows)
    IN  /\ Len(top_repos.rows) = (IF n < Len(col) THEN n ELSE Len(col))
        /\ got \subseteq 1..Len(col)
        /\ Cardinality(got) = Len(top_repos.rows)
        /\ \A i \in 1..(Len(top_repos.rows) - 1) :
              geq(col[top_repos.rows[i]], col[top_repos.rows[i+1]])
        /\ \A i \in got : \A j \in (1..Len(col)) \ got : geq(col[i], col[j])

NoNaN == \A i \in 1..Len(df.feature) : ~df.feature[i].nan

\* C8 as stated: for every table with a numeric feature column and every
\* n >= 0 top_ranked_repos returns the top min(n, rows of df) rows.
C8_TopRows ==
    (pc = "done" /\ n >= 0) => (top_repos.exc = "" /\ TopRows)

\* C8 amended: for a table with a repo_name column and a feature column
\* without NaN, and n >= 0, top_ranked_repos returns the top min(n, rows of
\* df) rows when that number is at least 1, and returns no row or raises
\* from the plotting call when it is 0; for a table without a repo_name
\* column it raises KeyError.
C8_TopRowsOfPlottableTable ==
    (pc = "done" /\ n >= 0) =>
        /\ ~df.repo_name => top_repos.exc = "KeyError"
        /\ (df.repo_name /\ NoNaN) =>
              /\ top_repos.exc = "" => TopRows
              /\ (n >= 1 /\ Len(df.feature) >= 1) => top_repos.exc = ""
              /\ top_repos.exc \in {"", "ValueError"}

\* three rows, the largest last, and the top two asked for
C8_Witness ==
    /\ pc = "done"
    /\ df = [repo_name |-> TRUE, feature |-> <<Num(0), Num(1), Num(2)>>]
    /\ n = 2
    /\ top_repos = [exc |-> "", rows |-> <<3, 2>>]

====
